---- MODULE Spec2Model ----
(***************************************************************************)
(* Answer grading engine of hyosua/projet_python: ReponseAnalyzer of       *)
(* Questionnaire.py (router, remote evaluation, local pipeline).           *)
(*                                                                         *)
(* A text is a sequence of one-character strings.  A rubric point is a     *)
(* record [kind, text]: kind "str" is a Python str, any other kind is a    *)
(* non-str object (a regex specification dict, an unknown object).         *)
(* Floats are modelled as exact rationals [num, den]; the values returned  *)
(* by round(x, 1) are integers counting tenths.                            *)
(***************************************************************************)
EXTENDS Integers, Sequences, FiniteSets, TLC

(***************************************************************************)
(* Bounds of the inputs.                                                   *)
(***************************************************************************)
MaxAnswerAtoms == 2
MaxExpectedAtoms == 1
MaxRequired == 2
MaxForbidden == 1

\* Words of a text and points of a rubric, for the methods called on their own.
MaxMots == 2
MaxPointsAppel == 2

\* _generer_suggestions called on its own: elements of the longest list.
MaxListe == 4

\* Evaluation windows opened from the main menu.
MaxFenetres == 2

\* flaskapp: question numbers an author may post, links made, attempts saved.
MaxNum == 2
MaxLinks == 2
MaxTentatives == 3

\* Desktop application: creation windows opened and question numbers used.
MaxCreation == 2
MaxNumero == 3

(***************************************************************************)
(* Characters and the vocabulary the inputs are built from.                *)
(***************************************************************************)
Sp == <<" ">>
Pt == <<".">>
Le == <<"L", "e">>
Chat == <<"c", "h", "a", "t">>

Atoms == {Pt, Le, Chat}

RECURSIVE Concat(_)
Concat(ss) == IF ss = <<>> THEN <<>> ELSE Head(ss) \o Concat(Tail(ss))

AtomSeqs(n) == UNION {[1..k -> Atoms] : k \in 0..n}

Texts(n) == {Concat(s) : s \in AtomSeqs(n)}

(***************************************************************************)
(* With(x, F) is F(x) with x evaluated once (a local variable).            *)
(***************************************************************************)
With(x, F(_)) == CHOOSE r \in {F(v) : v \in {x}} : TRUE

With2(x, y, F(_, _)) == CHOOSE r \in {F(u, v) : u \in {x}, v \in {y}} : TRUE

(***************************************************************************)
(* str.lower, \w and \s on the characters of the vocabulary.               *)
(***************************************************************************)
Lower(c) == IF c = "L" THEN "l" ELSE c

IsWordChar(c) == c \in {"L", "l", "e", "c", "h", "a", "t"}

IsSpace(c) == c = " "

MapSeq(Op(_), s) == [i \in 1..Len(s) |-> Op(s[i])]

\* Index of the last character of the token that starts at s[i].
TokenEnd(s, i) ==
    CHOOSE j \in i..Len(s) :
        /\ j = Len(s) \/ IsSpace(s[j + 1])
        /\ \A h \in i..j : ~IsSpace(s[h])

\* str.split(): the maximal runs of non-whitespace characters, in order.
Split(texte) ==
    With(texte, LAMBDA s :
        With({i \in 1..Len(s) : ~IsSpace(s[i]) /\ (i = 1 \/ IsSpace(s[i - 1]))},
             LAMBDA starts :
                [k \in 1..Cardinality(starts) |->
                    With(CHOOSE i \in starts :
                            Cardinality({j \in starts : j < i}) = k - 1,
                         LAMBDA i : SubSeq(s, i, TokenEnd(s, i)))]))

RECURSIVE JoinFirst(_, _, _)
JoinFirst(sep, parts, n) ==
    IF n = 0 THEN <<>>
    ELSE IF n = 1 THEN parts[1]
    ELSE JoinFirst(sep, parts, n - 1) \o sep \o parts[n]

\* sep.join(parts)
Join(sep, parts) == With(parts, LAMBDA p : JoinFirst(sep, p, Len(p)))

\* A fault: punctuation is kept.
SubNonWordGarde(c) == c

\* re.sub(r'[^\w\s]', ' ', c) on one character
SubNonWord(c) == IF IsWordChar(c) \/ IsSpace(c) THEN c ELSE " "

normaliser_texte(texte) ==
    With(texte, LAMBDA t :
        With(MapSeq(Lower, t), LAMBDA lowered :
            With(MapSeq(SubNonWord, lowered), LAMBDA cleaned :
                Join(Sp, Split(cleaned)))))

\* A fault: the empty text is in no text.
IsSubstringNonVide(needle, hay) ==
    With2(needle, hay, LAMBDA n, h :
        /\ n # <<>>
        /\ \E i \in 0..(Len(h) - Len(n)) : \A k \in 1..Len(n) : h[i + k] = n[k])

\* needle in hay (Python substring test)
IsSubstring(needle, hay) ==
    With2(needle, hay, LAMBDA n, h :
        \E i \in 0..(Len(h) - Len(n)) : \A k \in 1..Len(n) : h[i + k] = n[k])

SeqToSet(s) == With(s, LAMBDA t : {t[i] : i \in 1..Len(t)})

stop_words ==
    { <<"l", "e">>, <<"l", "a">>, <<"l", "e", "s">>, <<"u", "n">>,
      <<"u", "n", "e">>, <<"d", "e", "s">>, <<"d", "e">>, <<"d", "u">>,
      <<"à">>, <<"e", "t">>, <<"o", "u">>, <<"e", "s", "t">>,
      <<"s", "o", "n", "t">>, <<"d", "a", "n", "s">>, <<"s", "u", "r">>,
      <<"p", "o", "u", "r">> }

\* Basic mode of extraire_mots_cles (no linguistic model).
MotsClesBasique(texte) ==
    {mot \in SeqToSet(Split(normaliser_texte(texte))) :
        Len(mot) > 3 /\ mot \notin stop_words}

(***************************************************************************)
(* difflib.SequenceMatcher(None, a, b).ratio(): Ratcliff/Obershelp.        *)
(***************************************************************************)
\* Length of the longest common run that starts at a[i] and b[j].
RECURSIVE RunLength(_, _, _, _)
RunLength(a, b, i, j) ==
    IF i > Len(a) \/ j > Len(b) THEN 0
    ELSE IF a[i] # b[j] THEN 0
    ELSE 1 + RunLength(a, b, i + 1, j + 1)

\* find_longest_match: longest, then earliest in a, then earliest in b.
FindLongestMatch(a, b) ==
    With([p \in (1..Len(a)) \X (1..Len(b)) |-> RunLength(a, b, p[1], p[2])],
         LAMBDA run :
            With(CHOOSE n \in 0..Len(a) :
                    /\ \A p \in DOMAIN run : run[p] <= n
                    /\ n = 0 \/ \E p \in DOMAIN run : run[p] = n,
                 LAMBDA k :
                    IF k = 0 THEN [i |-> 1, j |-> 1, k |-> 0]
                    ELSE With({p \in DOMAIN run : run[p] = k}, LAMBDA best :
                            With(CHOOSE p \in best :
                                    \A o \in best :
                                        \/ p[1] < o[1]
                                        \/ p[1] = o[1] /\ p[2] <= o[2],
                                 LAMBDA p : [i |-> p[1], j |-> p[2], k |-> k]))))

\* Sum of the sizes of get_matching_blocks().
RECURSIVE MatchingSize(_, _)
MatchingSize(x, y) ==
    With2(x, y, LAMBDA a, b :
        IF a = <<>> \/ b = <<>> THEN 0
        ELSE With(FindLongestMatch(a, b), LAMBDA m :
                IF m.k = 0 THEN 0
                ELSE m.k
                     + MatchingSize(SubSeq(a, 1, m.i - 1), SubSeq(b, 1, m.j - 1))
                     + MatchingSize(SubSeq(a, m.i + m.k, Len(a)),
                                    SubSeq(b, m.j + m.k, Len(b)))))

\* ratio() = 2.0 * matches / (len(a) + len(b)), 1.0 when both are empty.
SequenceRatio(x, y) ==
    With2(x, y, LAMBDA a, b :
        IF Len(a) + Len(b) = 0 THEN [num |-> 1, den |-> 1]
        ELSE [num |-> 2 * MatchingSize(a, b), den |-> Len(a) + Len(b)])

(***************************************************************************)
(* Rationals and round(x, 1).                                              *)
(***************************************************************************)
Max(a, b) == IF a >= b THEN a ELSE b

Min(a, b) == IF a <= b THEN a ELSE b

\* round(num/den, 1) as a number of tenths (den > 0), ties to even.
Round1(x) ==
    With(x, LAMBDA q :
        LET n == IF q.num >= 0 THEN q.num ELSE -q.num
            t == (10 * n) \div q.den
            r == 10 * n - t * q.den
            up == 2 * r > q.den \/ (2 * r = q.den /\ t % 2 = 1)
            m == IF up THEN t + 1 ELSE t
        IN  IF q.num >= 0 THEN m ELSE -m)

(***************************************************************************)
(* Rubric points and JSON-like values of a result.                         *)
(***************************************************************************)
StrPoint(t) == [kind |-> "str", text |-> t]

\* {"type": "regex", "value": ...}: a dict, not a str
RegexPoint == [kind |-> "regex", text |-> Chat]

IsStr(p) == p.kind = "str"

PointTexts == {Pt, Le, Chat, Chat \o Sp \o Le}

PointPool == {StrPoint(t) : t \in PointTexts} \cup {RegexPoint}

PointLists(n) == UNION {[1..k -> PointPool] : k \in 0..n}

\* A JSON value: tag t and the payload of that tag (the others are blank).
JAbsent == [t |-> "absent", n |-> 0, b |-> FALSE, l |-> <<>>, s |-> ""]

\* a number, in tenths
JNum(n) == [JAbsent EXCEPT !.t = "num", !.n = n]

JBool(b) == [JAbsent EXCEPT !.t = "bool", !.b = b]

JList(l) == [JAbsent EXCEPT !.t = "list", !.l = l]

JStr(s) == [JAbsent EXCEPT !.t = "str", !.s = s]

ResultKeys ==
    {"est_correct", "score", "similarite", "elements_presents",
     "elements_partiels", "elements_absents", "erreurs_detectees",
     "suggestions"}

NoResult == [k \in ResultKeys |-> JAbsent]

(***************************************************************************)
(* The linguistic model handle (self.nlp).  A loaded model is an external  *)
(* component: what it answers is one of a few sampled behaviours.          *)
(***************************************************************************)
NoNlp ==
    [present |-> FALSE, leve |-> FALSE, vecteurs |-> FALSE,
     sim |-> [num |-> 0, den |-> 1], lexique |-> {}]

NlpModels ==
    { [present |-> TRUE, leve |-> TRUE, vecteurs |-> FALSE,
       sim |-> [num |-> 0, den |-> 1], lexique |-> {}],
      [present |-> TRUE, leve |-> FALSE, vecteurs |-> FALSE,
       sim |-> [num |-> 0, den |-> 1], lexique |-> {<<"l", "e">>}],
      [present |-> TRUE, leve |-> FALSE, vecteurs |-> TRUE,
       sim |-> [num |-> 5996, den |-> 10000], lexique |-> {Chat}] }

Ok(v) == [raised |-> FALSE, exc |-> "", val |-> v]

Raise(e, dummy) == [raised |-> TRUE, exc |-> e, val |-> dummy]

\* extraire_mots_cles on a str
extraire_mots_cles(h, texte) ==
    IF h.present
    THEN IF h.leve THEN Raise("NlpError", {})
         ELSE Ok(SeqToSet(Split(normaliser_texte(texte))) \cap h.lexique)
    ELSE Ok(MotsClesBasique(texte))

\* calculer_similarite on two str.  Doc.similarity of a loaded model with
\* vectors: 0.0 for an empty document, 1.0 for equal texts, else the value
\* the model gives.
calculer_similarite(h, texte1, texte2) ==
    IF h.present
    THEN IF h.leve THEN Raise("NlpError", [num |-> 0, den |-> 1])
         ELSE IF ~h.vecteurs THEN Ok(SequenceRatio(texte1, texte2))
         ELSE IF texte1 = <<>> \/ texte2 = <<>> THEN Ok([num |-> 0, den |-> 1])
         ELSE IF texte1 = texte2 THEN Ok([num |-> 1, den |-> 1])
         ELSE Ok(h.sim)
    ELSE Ok(SequenceRatio(normaliser_texte(texte1), normaliser_texte(texte2)))

(***************************************************************************)
(* RequirementChecker: verifier_presence_elements, detecter_erreurs.       *)
(***************************************************************************)
\* A fault: half of the keywords of the element are enough.
ClasseElementMoitie(h, reponse_norm, mots_cles_reponse, element) ==
    IF IsSubstring(normaliser_texte(element.text), reponse_norm) THEN "present"
    ELSE With(extraire_mots_cles(h, element.text).val, LAMBDA mots_cles_element :
            IF /\ mots_cles_element # {}
               /\ 10 * Cardinality(mots_cles_element \cap mots_cles_reponse)
                     >= 5 * Cardinality(mots_cles_element)
            THEN "partiel"
            ELSE "absent")

\* One turn of the loop of verifier_presence_elements, on a str element.
ClasseElement(h, reponse_norm, mots_cles_reponse, element) ==
    IF IsSubstring(normaliser_texte(element.text), reponse_norm) THEN "present"
    ELSE With(extraire_mots_cles(h, element.text).val, LAMBDA mots_cles_element :
            IF /\ mots_cles_element # {}
               /\ 10 * Cardinality(mots_cles_element \cap mots_cles_reponse)
                     >= 7 * Cardinality(mots_cles_element)
            THEN "partiel"
            ELSE "absent")

EmptyVerification == [presents |-> <<>>, absents |-> <<>>, partiels |-> <<>>]

\* The elements whose index is in the set idx, in the order of the sequence.
Restrict(elements, idx) ==
    [k \in 1..Cardinality(idx) |->
        elements[CHOOSE i \in idx : Cardinality({j \in idx : j <= i}) = k]]

\* A fault: a partial element is appended to 'absents' as well.
RangerElementsDouble(elements, classes) ==
    [presents |-> Restrict(elements, {i \in DOMAIN classes : classes[i] = "present"}),
     absents |-> Restrict(elements, {i \in DOMAIN classes : classes[i] # "present"}),
     partiels |-> Restrict(elements, {i \in DOMAIN classes : classes[i] = "partiel"})]

\* Lines 211-216: each element is appended to the list of its class.
RangerElements(elements, classes) ==
    [presents |-> Restrict(elements, {i \in DOMAIN classes : classes[i] = "present"}),
     absents |-> Restrict(elements, {i \in DOMAIN classes : classes[i] = "absent"}),
     partiels |-> Restrict(elements, {i \in DOMAIN classes : classes[i] = "partiel"})]

verifier_presence_elements(h, reponse_user, elements_requis) ==
    With2(normaliser_texte(reponse_user), extraire_mots_cles(h, reponse_user),
          LAMBDA reponse_norm, mots_cles_reponse :
            IF mots_cles_reponse.raised
            THEN Raise("NlpError", EmptyVerification)
            ELSE IF \E i \in 1..Len(elements_requis) : ~IsStr(elements_requis[i])
            THEN Raise("AttributeError", EmptyVerification)
            ELSE With([i \in 1..Len(elements_requis) |->
                         ClasseElement(h, reponse_norm, mots_cles_reponse.val,
                                       elements_requis[i])],
                      LAMBDA classes : Ok(RangerElements(elements_requis, classes))))

\* A fault: a forbidden point is also detected by its keywords.
DetecterParMotsCles(reponse_user, erreurs_a_eviter) ==
    With(normaliser_texte(reponse_user), LAMBDA reponse_norm :
        LET Test(e) ==
                ClasseElement(NoNlp, reponse_norm, MotsClesBasique(reponse_user), e)
                    # "absent"
        IN  IF \E i \in 1..Len(erreurs_a_eviter) : ~IsStr(erreurs_a_eviter[i])
            THEN Raise("AttributeError", <<>>)
            ELSE Ok(SelectSeq(erreurs_a_eviter, Test)))

detecter_erreurs(reponse_user, erreurs_a_eviter) ==
    With(normaliser_texte(reponse_user), LAMBDA reponse_norm :
        LET Test(e) == IsSubstring(normaliser_texte(e.text), reponse_norm)
        IN  IF \E i \in 1..Len(erreurs_a_eviter) : ~IsStr(erreurs_a_eviter[i])
            THEN Raise("AttributeError", <<>>)
            ELSE Ok(SelectSeq(erreurs_a_eviter, Test)))

(***************************************************************************)
(* LocalScoreAggregator: evaluer_reponse_local, _generer_suggestions.      *)
(***************************************************************************)
\* A fault: the line of the partial elements names three of them.
GenererSuggestionsTroisPartiels(verification_elements, erreurs_detectees) ==
    LET Line(type, items, n) ==
            IF items = <<>> THEN <<>>
            ELSE <<[type |-> type, items |-> SubSeq(items, 1, Min(n, Len(items)))]>>
    IN  With(Line("mentionner", verification_elements.absents, 3)
             \o Line("developper", verification_elements.partiels, 3)
             \o Line("eviter", erreurs_detectees, 2),
             LAMBDA suggestions :
                IF suggestions = <<>>
                THEN <<[type |-> "excellente", items |-> <<>>]>>
                ELSE suggestions)

_generer_suggestions(verification_elements, erreurs_detectees) ==
    LET Line(type, items, n) ==
            IF items = <<>> THEN <<>>
            ELSE <<[type |-> type, items |-> SubSeq(items, 1, Min(n, Len(items)))]>>
    IN  With(Line("mentionner", verification_elements.absents, 3)
             \o Line("developper", verification_elements.partiels, 2)
             \o Line("eviter", erreurs_detectees, 2),
             LAMBDA suggestions :
                IF suggestions = <<>>
                THEN <<[type |-> "excellente", items |-> <<>>]>>
                ELSE suggestions)

\* A fault: the coverage term is computed whether or not there are points.
ScoreBaseSansGarde(similarite, verification_elements, points_obligatoires) ==
    LET n == Len(points_obligatoires)
        p == Len(verification_elements.presents)
        q == Len(verification_elements.partiels)
    IN  [num |-> 40 * similarite.num * n + 30 * (2 * p + q) * similarite.den,
         den |-> similarite.den * n]

\* score_base of lines 346-352; den = 0 stands for a ZeroDivisionError.
ScoreBase(similarite, verification_elements, points_obligatoires) ==
    LET n == Len(points_obligatoires)
        p == Len(verification_elements.presents)
        q == Len(verification_elements.partiels)
    IN  IF points_obligatoires # <<>>
        THEN [num |-> 40 * similarite.num * n + 30 * (2 * p + q) * similarite.den,
              den |-> similarite.den * n]
        ELSE [num |-> 100 * similarite.num, den |-> similarite.den]

\* A fault: the penalty of the detected errors is left out.
ScoreFinalSansPenalite(score_base, erreurs_trouvees) ==
    [num |-> Max(0, score_base.num), den |-> score_base.den]

\* score_final of lines 355-356
ScoreFinal(score_base, erreurs_trouvees) ==
    [num |-> Max(0, score_base.num - 10 * Len(erreurs_trouvees) * score_base.den),
     den |-> score_base.den]

\* A fault: the missing elements are left out of the verdict.
EstCorrectSansAbsents(score_final, erreurs_trouvees, verification_elements) ==
    /\ score_final.num >= 60 * score_final.den
    /\ erreurs_trouvees = <<>>

\* est_correct of line 359
EstCorrect(score_final, erreurs_trouvees, verification_elements) ==
    /\ score_final.num >= 60 * score_final.den
    /\ erreurs_trouvees = <<>>
    /\ Len(verification_elements.absents) = 0

\* Lines 345-370, once nothing has raised.
Aggregate(similarite, verification, erreurs, points_obligatoires) ==
    With(ScoreBase(similarite, verification, points_obligatoires), LAMBDA score_base :
        IF score_base.den = 0 THEN Raise("ZeroDivisionError", NoResult)
        ELSE With(ScoreFinal(score_base, erreurs), LAMBDA score_final :
                Ok([est_correct |-> JBool(EstCorrect(score_final, erreurs, verification)),
                    score |-> JNum(Round1(score_final)),
                    similarite |-> JNum(Round1([num |-> 100 * similarite.num,
                                                den |-> similarite.den])),
                    elements_presents |-> JList(verification.presents),
                    elements_partiels |-> JList(verification.partiels),
                    elements_absents |-> JList(verification.absents),
                    erreurs_detectees |-> JList(erreurs),
                    suggestions |-> JList(_generer_suggestions(verification, erreurs))])))

evaluer_reponse_local(h, question_data, reponse_user) ==
    With(calculer_similarite(h, reponse_user, question_data.reponse_attendue),
         LAMBDA similarite :
            IF similarite.raised THEN Raise(similarite.exc, NoResult)
            ELSE With(verifier_presence_elements(h, reponse_user,
                                                 question_data.points_obligatoires),
                      LAMBDA verification :
                        IF verification.raised THEN Raise(verification.exc, NoResult)
                        ELSE With(detecter_erreurs(reponse_user,
                                                   question_data.erreurs_a_eviter),
                                  LAMBDA erreurs :
                                    IF erreurs.raised THEN Raise(erreurs.exc, NoResult)
                                    ELSE Aggregate(similarite.val, verification.val,
                                                   erreurs.val,
                                                   question_data.points_obligatoires))))

(***************************************************************************)
(* PromptBuilder and RemoteEvaluator.                                      *)
(***************************************************************************)
NA == <<"N", "/", "A">>

PointTextsOf(points) == [i \in 1..Len(points) |-> points[i].text]

\* ', '.join(points) or 'N/A'
JoinOrNA(points) ==
    With(Join(<<",", " ">>, PointTextsOf(points)), LAMBDA joined :
        IF joined = <<>> THEN NA ELSE joined)

\* The fixed parts of the template are single pseudo-characters.
_construire_prompt_gemini(question_data, reponse_user) ==
    IF \E p \in SeqToSet(question_data.points_obligatoires)
                \cup SeqToSet(question_data.erreurs_a_eviter) : ~IsStr(p)
    THEN Raise("TypeError", <<>>)
    ELSE Ok(Join(Sp, Split(
            <<"Tu es un assistant", " ", "1. Réponse attendue (modèle) :", " ">>
            \o question_data.reponse_attendue
            \o <<" ", "2. Points obligatoires :", " ">>
            \o JoinOrNA(question_data.points_obligatoires)
            \o <<" ", "3. Erreurs à éviter :", " ">>
            \o JoinOrNA(question_data.erreurs_a_eviter)
            \o <<" ", "Voici la réponse de l'étudiant :", " ", "\"">>
            \o reponse_user
            \o <<"\"", " ", "TA TÂCHE", " ">>)))

\* A JSON object of the remote evaluator; JAbsent marks a key it did not send.
JsonObject(score, est_correct, presents, suggestions) ==
    [NoResult EXCEPT !.score = score, !.est_correct = est_correct,
                     !.elements_presents = presents, !.suggestions = suggestions]

\* response.text as json.loads sees it.
GeminiReponses ==
    { [parse |-> "invalide", obj |-> NoResult],
      [parse |-> "non_objet", obj |-> NoResult],
      [parse |-> "objet", obj |-> NoResult],
      [parse |-> "objet",
       obj |-> JsonObject(JNum(850), JBool(TRUE), JList(<<StrPoint(Chat)>>),
                          JList(<<[type |-> "conseil", items |-> <<>>]>>))],
      [parse |-> "objet", obj |-> JsonObject(JNum(1500), JAbsent, JAbsent, JAbsent)],
      [parse |-> "objet", obj |-> JsonObject(JStr("85"), JBool(TRUE), JAbsent, JAbsent)],
      [parse |-> "objet",
       obj |-> JsonObject(JNum(850), JAbsent, JStr("chat"), JAbsent)] }

\* No call of generate_content yet; generate_content raised.
NoReponse == [parse |-> "aucune", obj |-> NoResult]

ReponseException == [parse |-> "exception", obj |-> NoResult]

\* dict.setdefault(key, default)
SetDefault(obj, key, default) ==
    IF obj[key] = JAbsent THEN [obj EXCEPT ![key] = default] ELSE obj

\* A fault: a missing score counts as a passing one.
ScoreGe60AbsentPasse(obj) ==
    IF obj.score = JAbsent THEN Ok(TRUE)
    ELSE IF obj.score.t = "num" THEN Ok(obj.score.n >= 600)
    ELSE Raise("TypeError", FALSE)

\* resultats.get('score', 0) >= 60, evaluated before setdefault is called
ScoreGe60(obj) ==
    IF obj.score = JAbsent THEN Ok(FALSE)
    ELSE IF obj.score.t = "num" THEN Ok(obj.score.n >= 600)
    ELSE Raise("TypeError", FALSE)

\* Lines 307-315 on a parsed JSON object whose score compares with 60.
Defaults(obj, est_correct) ==
    LET r1 == SetDefault(obj, "est_correct", JBool(est_correct))
        r2 == SetDefault(r1, "similarite", JNum(0))
        r3 == SetDefault(r2, "elements_presents", JList(<<>>))
        r4 == SetDefault(r3, "elements_partiels", JList(<<>>))
        r5 == SetDefault(r4, "elements_absents", JList(<<>>))
        r6 == SetDefault(r5, "erreurs_detectees", JList(<<>>))
        r7 == SetDefault(r6, "suggestions",
                         JList(<<[type |-> "analyse_gemini", items |-> <<>>]>>))
    IN  SetDefault(r7, "score", JNum(0))

\* Lines 303-323: what evaluer_reponse_gemini makes of the response.
TraiterReponse(reponse) ==
    IF reponse.parse = "invalide" THEN Raise("ParseError", NoResult)
    ELSE IF reponse.parse = "non_objet" THEN Raise("ParseError", NoResult)
    ELSE With(ScoreGe60(reponse.obj), LAMBDA ge60 :
            IF ge60.raised THEN Raise("TypeError", NoResult)
            ELSE Ok(Defaults(reponse.obj, ge60.val)))

(***************************************************************************)
(* BaselineGrader of Projet/flaskapp/grader.py.  A regex pattern is a      *)
(* sequence of characters: "." stands for any character, "(" opens a group *)
(* and any other character stands for itself; a pattern with a group that  *)
(* is never closed does not compile.                                       *)
(***************************************************************************)
InconnuPoint == [kind |-> "inconnu", text |-> <<>>]

RegexOf(pattern) == [kind |-> "regex", text |-> pattern]

\* re.compile fails
PatternInvalide(pattern) ==
    Cardinality({i \in 1..Len(pattern) : pattern[i] = "("})
        # Cardinality({i \in 1..Len(pattern) : pattern[i] = ")"})

\* re.search(pattern, text, flags=re.I) is not None, for a pattern without groups
RegexSearch(pattern, text) ==
    With2(pattern, text, LAMBDA p, t :
        \E i \in 0..(Len(t) - Len(p)) :
            \A k \in 1..Len(p) : p[k] = "." \/ Lower(p[k]) = Lower(t[i + k]))

\* BaselineGrader._check_point
_check_point(spec, text) ==
    IF spec.kind = "str"
    THEN Ok(IsSubstring(MapSeq(Lower, spec.text), MapSeq(Lower, text)))
    ELSE IF spec.kind = "regex"
    THEN IF PatternInvalide(spec.text) THEN Raise("re.error", FALSE)
         ELSE Ok(RegexSearch(spec.text, text))
    ELSE Ok(FALSE)

\* round(num/den, 2) as a number of hundredths
Round2(x) == Round1([num |-> 10 * x.num, den |-> x.den])

NoFeedback ==
    [final |-> 0, similarity_score |-> 0, required_found |-> <<>>,
     required_missing |-> <<>>, forbidden_detected |-> <<>>]

\* A fault: the score is not clamped from below.
GradeScoreSansPlancher(base, found, violated) ==
    Min(10000, base + 1000 * Len(found) - 1000 * Len(violated))

\* Lines 34-39: the score, in hundredths
GradeScore(base, found, violated) ==
    Max(0, Min(10000, base + 1000 * Len(found) - 1000 * Len(violated)))

\* BaselineGrader(req, forb, expected).grade(answer); scores in hundredths
grade(req, forb, expected, answer) ==
    With2([i \in 1..Len(req) |-> _check_point(req[i], answer)],
          [i \in 1..Len(forb) |-> _check_point(forb[i], answer)],
          LAMBDA creq, cforb :
            IF \E i \in 1..Len(creq) : creq[i].raised
            THEN Raise("re.error", NoFeedback)
            ELSE IF \E i \in 1..Len(cforb) : cforb[i].raised
            THEN Raise("re.error", NoFeedback)
            ELSE With2(Round2(With(SequenceRatio(MapSeq(Lower, answer),
                                                 MapSeq(Lower, expected)),
                                   LAMBDA sim : [num |-> 40 * sim.num, den |-> sim.den])),
                       [found |-> Restrict(req, {i \in 1..Len(creq) : creq[i].val}),
                        missing |-> Restrict(req, {i \in 1..Len(creq) : ~creq[i].val}),
                        violated |-> Restrict(forb, {i \in 1..Len(cforb) : cforb[i].val})],
                       LAMBDA base, l :
                         Ok([final |-> GradeScore(base, l.found, l.violated),
                             similarity_score |-> base,
                             required_found |-> l.found,
                             required_missing |-> l.missing,
                             forbidden_detected |-> l.violated])))

(***************************************************************************)
(* EvaluationRouter: evaluer_reponse, as the steps of one invocation.      *)
(***************************************************************************)
NoteNonConfigure == <<"Mode local (Gemini non configuré).">>

\* A fault: the failure of an attempt is reported as a missing configuration.
NoteErreurNonConfigure(e) == NoteNonConfigure

NoteErreur(e) == <<"Erreur Gemini (", e, ") - Mode local utilisé.">>

Answers == Texts(MaxAnswerAtoms)

Rubrics ==
    [reponse_attendue : Texts(MaxExpectedAtoms),
     points_obligatoires : PointLists(MaxRequired),
     erreurs_a_eviter : PointLists(MaxForbidden)]

EmptyRubric ==
    [reponse_attendue |-> <<>>, points_obligatoires |-> <<>>,
     erreurs_a_eviter |-> <<>>]

VARIABLES
    nlp,            \* self.nlp
    gemini_model,   \* self.gemini_model is set
    pc,             \* "idle", "gemini", "returned", "raised"
    question_data,  \* arguments of the invocation
    reponse_user,
    prompt_soumis,  \* the prompt given to generate_content
    reponse_gemini, \* what generate_content answered
    resultats,      \* (resultats, contexte) returned to the caller
    contexte,
    exc,            \* the exception that reached the caller
    appels_gemini,  \* calls of generate_content in this invocation
    passes_locales, \* runs of evaluer_reponse_local in this invocation
    appel,          \* a method called on its own: its name and arguments
    retour,         \* what that call returned or raised
    fils_pc,        \* concurrent invocations: where each thread stands
    cadres,         \* the local variables of each invocation
    fils_args,      \* what each thread called evaluer_reponse with
    analyzers,      \* self.analyzer of each evaluation window opened
    initialisations, \* calls of spacy.load and of genai.GenerativeModel so far
    ouverture,      \* how the last opening of an evaluation window ended
    evaluation,     \* the last evaluation made in a window and its outcome
    questions,      \* flaskapp: data/questions/<num>.pickle
    links,          \* flaskapp: data/links/<code>.pickle, in order of creation
    requete,        \* flaskapp: the last request of an author and its status
    users_file,     \* flaskapp: data/users.pickle
    verrou,         \* flaskapp: the thread that holds storage._lock, or 0
    inscriptions,   \* flaskapp: the create_user call of each thread
    crees,          \* flaskapp: the users that create_user returned
    attempts_dir,   \* flaskapp: data/attempts/<question_num>/<file>.pickle
    tentatives,     \* flaskapp: the attempts given to save_attempt so far
    liste,          \* flaskapp: what the last list_attempts returned
    questions_db,   \* desktop: questions_db/question_<n>.pkl
    formulaires,    \* desktop: numero_var of each creation window opened
    sauvegarde      \* desktop: the last sauvegarder_question and its outcome

vars ==
    <<nlp, gemini_model, pc, question_data, reponse_user, prompt_soumis,
      reponse_gemini, resultats, contexte, exc, appels_gemini, passes_locales,
      appel, retour, fils_pc, cadres, fils_args,
      analyzers, initialisations, ouverture, evaluation,
      questions, links, requete, users_file, verrou, inscriptions, crees,
      attempts_dir, tentatives, liste, questions_db, formulaires, sauvegarde>>

\* The threads that call evaluer_reponse on the same analyzer.
Fils == {1, 2}

varsFils == <<fils_pc, cadres, fils_args>>

varsFenetres == <<analyzers, initialisations, ouverture, evaluation>>

varsAuteur == <<questions, links, requete>>

varsUsers == <<users_file, verrou, inscriptions, crees>>

varsAttempts == <<attempts_dir, tentatives, liste>>

varsCreation == <<questions_db, formulaires, sauvegarde>>

\* What the invocations of evaluer_reponse on one analyzer leave alone.
varsAutres ==
    <<varsFils, varsFenetres, varsAuteur, varsUsers, varsAttempts, varsCreation>>

\* The accounts of the web application and the numbers its questions take.
Emails == {"a@x", "b@x"}

Nums == 1..MaxNum

\* No file for a question number; no request made yet.
NoQuestion == [present |-> FALSE, owner_email |-> "", title |-> ""]

NoRequete ==
    [user |-> "", route |-> "", num |-> 0, status |-> 0, avant |-> NoQuestion]

\* No entry for an e-mail in users.pickle; no create_user call in a thread.
NoUser == [present |-> FALSE, password_hash |-> <<>>]

\* 'pendant': the call was made while another call was running.
NoInscription ==
    [pc |-> "idle", email |-> "", password |-> "",
     users |-> [e \in Emails |-> NoUser], pendant |-> FALSE]

\* list_attempts was not called since the last save_attempt.
NoListe == [question_num |-> 0, attempts |-> <<>>]

\* No file for a question number of the desktop application; no save yet.
NoFiche == [present |-> FALSE, titre |-> "", enonce |-> ""]

NoSauvegarde ==
    [fenetre |-> 0, numero |-> 0, succes |-> FALSE, avant |-> NoFiche]

\* No evaluation window was opened; no evaluation was made in a window.
NoOuverture == [raised |-> FALSE, exc |-> ""]

NoEvaluation ==
    [fenetre |-> 0, raised |-> FALSE, exc |-> "", resultats |-> NoResult,
     contexte |-> <<>>]

\* The locals of evaluer_reponse, evaluer_reponse_gemini and
\* evaluer_reponse_local before the call.
NoCadre ==
    [question_data |-> EmptyRubric, reponse_user |-> <<>>, prompt |-> <<>>,
     note |-> <<>>, similarite |-> [num |-> 0, den |-> 1],
     verification_elements |-> EmptyVerification,
     resultats |-> NoResult, contexte |-> <<>>, exc |-> ""]

\* 'pendant': the call was made while another invocation was running.
NoArgs == [question_data |-> EmptyRubric, reponse_user |-> <<>>,
           reponse |-> NoReponse, pendant |-> FALSE]

\* No method is being called on its own.
NoAppel == [fn |-> "aucun"]

NoRetour == [raised |-> FALSE, exc |-> "", val |-> <<>>]

Init ==
    /\ nlp \in {NoNlp} \cup NlpModels
    /\ gemini_model \in BOOLEAN
    /\ pc = "idle"
    /\ question_data = EmptyRubric
    /\ reponse_user = <<>>
    /\ prompt_soumis = <<>>
    /\ reponse_gemini = NoReponse
    /\ resultats = NoResult
    /\ contexte = <<>>
    /\ exc = ""
    /\ appels_gemini = 0
    /\ passes_locales = 0
    /\ appel = NoAppel
    /\ retour = NoRetour
    /\ fils_pc = [t \in Fils |-> "idle"]
    /\ cadres = [t \in Fils |-> NoCadre]
    /\ fils_args = [t \in Fils |-> NoArgs]
    /\ analyzers = <<>>
    /\ initialisations = [nlp |-> 0, gemini |-> 0]
    /\ ouverture = NoOuverture
    /\ evaluation = NoEvaluation
    /\ questions = [n \in Nums |-> NoQuestion]
    /\ links = <<>>
    /\ requete = NoRequete
    /\ users_file = [e \in Emails |-> NoUser]
    /\ verrou = 0
    /\ inscriptions = [t \in Fils |-> NoInscription]
    /\ crees = <<>>
    /\ attempts_dir = {}
    /\ tentatives = <<>>
    /\ liste = NoListe
    /\ questions_db = [n \in 1..MaxNumero |-> NoFiche]
    /\ formulaires = <<>>
    /\ sauvegarde = NoSauvegarde

\* A fault: the local result is returned with the prompt as its context.
RunLocalContextePrompt(q, r, note) ==
    \E local \in {evaluer_reponse_local(nlp, q, r)} :
        /\ passes_locales' = passes_locales + 1
        /\ IF local.raised
           THEN /\ pc' = "raised"
                /\ exc' = local.exc
                /\ UNCHANGED <<resultats, contexte>>
           ELSE /\ pc' = "returned"
                /\ resultats' = local.val
                /\ contexte' = prompt_soumis
                /\ UNCHANGED exc

\* resultats = self.evaluer_reponse_local(...); return resultats, note
RunLocal(q, r, note) ==
    \E local \in {evaluer_reponse_local(nlp, q, r)} :
        /\ passes_locales' = passes_locales + 1
        /\ IF local.raised
           THEN /\ pc' = "raised"
                /\ exc' = local.exc
                /\ UNCHANGED <<resultats, contexte>>
           ELSE /\ pc' = "returned"
                /\ resultats' = local.val
                /\ contexte' = note
                /\ UNCHANGED exc

\* Lines 247-250: the else branch of the router.
EvaluerSansGemini ==
    /\ pc = "idle"
    /\ ~gemini_model
    /\ \E q \in Rubrics, r \in Answers :
        /\ question_data' = q
        /\ reponse_user' = r
        /\ RunLocal(q, r, NoteNonConfigure)
    /\ UNCHANGED <<nlp, gemini_model, prompt_soumis, reponse_gemini, appels_gemini,
                   appel, retour, varsAutres>>

\* Lines 239-242 and 291-301: up to the call of generate_content.
EvaluerAvecGemini ==
    /\ pc = "idle"
    /\ gemini_model
    /\ \E q \in Rubrics, r \in Answers :
        \E prompt \in {_construire_prompt_gemini(q, r)} :
            /\ question_data' = q
            /\ reponse_user' = r
            /\ IF prompt.raised
               THEN /\ RunLocal(q, r, NoteErreur(prompt.exc))
                    /\ UNCHANGED <<prompt_soumis, appels_gemini>>
               ELSE /\ pc' = "gemini"
                    /\ prompt_soumis' = prompt.val
                    /\ appels_gemini' = appels_gemini + 1
                    /\ UNCHANGED <<resultats, contexte, exc, passes_locales>>
    /\ UNCHANGED <<nlp, gemini_model, reponse_gemini, appel, retour, varsAutres>>

\* Lines 303-323 and 242-246: generate_content returned a response.
GeminiRepond ==
    /\ pc = "gemini"
    /\ \E reponse \in GeminiReponses :
        \E traite \in {TraiterReponse(reponse)} :
            /\ reponse_gemini' = reponse
            /\ IF traite.raised
               THEN RunLocal(question_data, reponse_user, NoteErreur(traite.exc))
               ELSE /\ pc' = "returned"
                    /\ resultats' = traite.val
                    /\ contexte' = prompt_soumis
                    /\ UNCHANGED <<exc, passes_locales>>
    /\ UNCHANGED <<nlp, gemini_model, question_data, reponse_user,
                   prompt_soumis, appels_gemini, appel, retour, varsAutres>>

\* Lines 298-301 and 243-246: generate_content raised.
GeminiEchoue ==
    /\ pc = "gemini"
    /\ reponse_gemini' = ReponseException
    /\ RunLocal(question_data, reponse_user, NoteErreur("TransportError"))
    /\ UNCHANGED <<nlp, gemini_model, question_data, reponse_user,
                   prompt_soumis, appels_gemini, appel, retour, varsAutres>>

\* The caller has taken the outcome; the analyzer waits for the next call.
Terminer ==
    /\ pc \in {"returned", "raised"}
    /\ pc' = "idle"
    /\ question_data' = EmptyRubric
    /\ reponse_user' = <<>>
    /\ prompt_soumis' = <<>>
    /\ reponse_gemini' = NoReponse
    /\ resultats' = NoResult
    /\ contexte' = <<>>
    /\ exc' = ""
    /\ appels_gemini' = 0
    /\ passes_locales' = 0
    /\ UNCHANGED <<nlp, gemini_model, appel, retour, varsAutres>>

Next ==
    \/ EvaluerSansGemini
    \/ EvaluerAvecGemini
    \/ GeminiRepond
    \/ GeminiEchoue
    \/ Terminer

Spec == Init /\ [][Next]_vars

(***************************************************************************)
(* The methods of ReponseAnalyzer and BaselineGrader called on their own,  *)
(* on texts made of a few words.                                           *)
(***************************************************************************)
Lele == <<"l", "e", "l", "e">>

Mots == {Chat, Lele, Le, Pt}

TextesAppel ==
    {Join(Sp, mots) : mots \in UNION {[1..k -> Mots] : k \in 0..MaxMots}}

PointPoolAppel ==
    {StrPoint(Chat), StrPoint(Chat \o Sp \o Lele), StrPoint(Le), StrPoint(Pt),
     RegexOf(Chat), InconnuPoint}

PointListsAppel == UNION {[1..k -> PointPoolAppel] : k \in 0..MaxPointsAppel}

PointPoolGrader ==
    {StrPoint(Chat), StrPoint(Le), RegexOf(<<"c", ".">>), RegexOf(<<"(">>),
     InconnuPoint}

\* The required and forbidden points of a grader: MaxPointsAppel points at most.
RubricsGrader ==
    UNION {UNION {[req : [1..k -> PointPoolGrader], forb : [1..j -> PointPoolGrader]] :
                    j \in 0..(MaxPointsAppel - k)} : k \in 0..MaxPointsAppel}

ExpectedGrader == {Chat, Le \o Sp \o Chat}

varsEvaluation ==
    <<nlp, gemini_model, pc, question_data, reponse_user, prompt_soumis,
      reponse_gemini, resultats, contexte, exc, appels_gemini, passes_locales>>

InitAppels == Init /\ ~gemini_model

AppelNormaliser ==
    /\ appel.fn = "aucun"
    /\ ~nlp.present
    /\ \E texte \in TextesAppel :
        /\ appel' = [fn |-> "normaliser_texte", texte |-> texte]
        /\ retour' = Ok(normaliser_texte(texte))
    /\ UNCHANGED <<varsEvaluation, varsAutres>>

AppelExtraire ==
    /\ appel.fn = "aucun"
    /\ \E texte \in TextesAppel :
        /\ appel' = [fn |-> "extraire_mots_cles", texte |-> texte]
        /\ retour' = extraire_mots_cles(nlp, texte)
    /\ UNCHANGED <<varsEvaluation, varsAutres>>

AppelVerifier ==
    /\ appel.fn = "aucun"
    /\ \E r \in TextesAppel, elements_requis \in PointListsAppel :
        /\ appel' = [fn |-> "verifier_presence_elements", reponse_user |-> r,
                     elements_requis |-> elements_requis]
        /\ retour' = verifier_presence_elements(nlp, r, elements_requis)
    /\ UNCHANGED <<varsEvaluation, varsAutres>>

AppelDetecter ==
    /\ appel.fn = "aucun"
    /\ ~nlp.present
    /\ \E r \in TextesAppel, erreurs_a_eviter \in PointListsAppel :
        /\ appel' = [fn |-> "detecter_erreurs", reponse_user |-> r,
                     erreurs_a_eviter |-> erreurs_a_eviter]
        /\ retour' = detecter_erreurs(r, erreurs_a_eviter)
    /\ UNCHANGED <<varsEvaluation, varsAutres>>

AppelGrade ==
    /\ appel.fn = "aucun"
    /\ ~nlp.present
    /\ \E g \in RubricsGrader, expected \in ExpectedGrader, answer \in TextesAppel :
        /\ appel' = [fn |-> "grade", req |-> g.req, forb |-> g.forb,
                     expected |-> expected, answer |-> answer]
        /\ retour' = grade(g.req, g.forb, expected, answer)
    /\ UNCHANGED <<varsEvaluation, varsAutres>>

\* The call is over.
Retourner ==
    /\ appel.fn # "aucun"
    /\ appel' = NoAppel
    /\ retour' = NoRetour
    /\ UNCHANGED <<varsEvaluation, varsAutres>>

NextAppels ==
    \/ AppelNormaliser
    \/ AppelExtraire
    \/ AppelVerifier
    \/ AppelDetecter
    \/ AppelGrade
    \/ Retourner

SpecAppels == InitAppels /\ [][NextAppels]_vars

(***************************************************************************)
(* Properties of one invocation of evaluer_reponse.                        *)
(***************************************************************************)
Termine == pc \in {"returned", "raised"}

\* The invocation returned what a run of the local pipeline produced.
LocalResult == pc = "returned" /\ passes_locales > 0

\* The remote evaluator was tried, or its prompt was being built, and failed.
EchecGemini ==
    /\ gemini_model
    /\ Termine
    /\ \/ reponse_gemini.parse = "exception"
       \/ /\ reponse_gemini.parse \notin {"aucune", "exception"}
          /\ TraiterReponse(reponse_gemini).raised
       \/ reponse_gemini.parse = "aucune" /\ appels_gemini = 0

\* The three lists hold the elements of 'points' at three sets of positions
\* that are pairwise disjoint and cover every position, each in rubric order.
IsPartition(presents, partiels, absents, points) ==
    \E ia \in SUBSET (1..Len(points)) :
        \E ib \in SUBSET ((1..Len(points)) \ ia) :
            /\ presents = Restrict(points, ia)
            /\ partiels = Restrict(points, ib)
            /\ absents = Restrict(points, (1..Len(points)) \ (ia \cup ib))

\* max(0, base - 10 * violations) as an exact fraction, from the measured
\* similarity and the lists of the returned result.
ScoreExact(s) ==
    LET n == Len(question_data.points_obligatoires)
        p == Len(resultats.elements_presents.l)
        q == Len(resultats.elements_partiels.l)
        v == Len(resultats.erreurs_detectees.l)
        basenum == IF n = 0 THEN 100 * s.num
                   ELSE 40 * s.num * n + 30 * (2 * p + q) * s.den
        baseden == IF n = 0 THEN s.den ELSE s.den * n
    IN  [num |-> IF basenum - 10 * v * baseden >= 0
                 THEN basenum - 10 * v * baseden ELSE 0,
         den |-> baseden]

SimilaritesMesurees ==
    {calculer_similarite(nlp, reponse_user, question_data.reponse_attendue).val}

WellFormed(r) ==
    /\ r.est_correct.t = "bool"
    /\ r.score.t = "num" /\ 0 <= r.score.n /\ r.score.n <= 1000
    /\ \A k \in {"elements_presents", "elements_partiels", "elements_absents",
                 "erreurs_detectees", "suggestions"} : r[k].t = "list"

\* C1: for every rubric and answer, whatever the remote evaluator does and
\* whatever kinds of points the rubric holds, evaluer_reponse returns a pair
\* and never raises to its caller.
C1_NeverRaises == pc # "raised"

\* C2: when the remote evaluator is configured but fails (any exception,
\* an unparseable response included), evaluer_reponse ends exactly as
\* evaluer_reponse_local alone does for the same rubric and answer, after one
\* local run, and a returned context is the note naming the remote failure
\* and the local fallback, not the prompt.
C2_FallbackIsLocal ==
    EchecGemini =>
        \E local \in {evaluer_reponse_local(nlp, question_data, reponse_user)} :
            /\ passes_locales = 1
            /\ IF local.raised
               THEN pc = "raised" /\ exc = local.exc
               ELSE /\ pc = "returned"
                    /\ resultats = local.val
                    /\ Len(contexte) = 3
                    /\ contexte[1] = "Erreur Gemini ("
                    /\ contexte[3] = ") - Mode local utilisé."
                    /\ contexte # prompt_soumis

\* C2 witness: generate_content raised and the local result, with a required
\* point found, was returned.
C2_Witness ==
    /\ EchecGemini
    /\ reponse_gemini.parse = "exception"
    /\ pc = "returned"
    /\ resultats.elements_presents.l # <<>>

\* C3: the score of every returned result, local or remote, is in [0, 100]
\* (scores are counted in tenths).
C3_ScoreBounds ==
    pc = "returned" =>
        /\ resultats.score.t = "num"
        /\ 0 <= resultats.score.n
        /\ resultats.score.n <= 1000

\* C4: in every returned result, on either path, the three element lists hold
\* each required point of the rubric exactly once and erreurs_detectees holds
\* only forbidden points of the rubric.
C4_DataModel ==
    pc = "returned" =>
        /\ \A k \in {"elements_presents", "elements_partiels", "elements_absents",
                     "erreurs_detectees"} : resultats[k].t = "list"
        /\ IsPartition(resultats.elements_presents.l, resultats.elements_partiels.l,
                       resultats.elements_absents.l, question_data.points_obligatoires)
        /\ \A i \in 1..Len(resultats.erreurs_detectees.l) :
              resultats.erreurs_detectees.l[i] \in SeqToSet(question_data.erreurs_a_eviter)

\* C5: for any answer and any sequence of required points, whenever
\* verifier_presence_elements returns, every required point is in exactly one
\* of presents, partiels, absents: disjoint by position, none omitted, none
\* added, rubric order kept in each list.
C5_Partition ==
    pc # "idle" =>
        \A v \in {verifier_presence_elements(nlp, reponse_user,
                                             question_data.points_obligatoires)} :
            ~v.raised =>
                IsPartition(v.val.presents, v.val.partiels, v.val.absents,
                            question_data.points_obligatoires)

\* C5 witness: two required points, one classed present and one partial.
C5_Witness ==
    /\ pc # "idle"
    /\ Len(question_data.points_obligatoires) = 2
    /\ \E v \in {verifier_presence_elements(nlp, reponse_user,
                                            question_data.points_obligatoires)} :
          ~v.raised /\ v.val.presents # <<>> /\ v.val.partiels # <<>>

\* C6 as stated: in every local result, est_correct is true iff the returned
\* score is at least 60, no forbidden point was detected and no required
\* point is missing.
C6_Original ==
    LocalResult =>
        (resultats.est_correct.b <=>
            /\ resultats.score.n >= 600
            /\ resultats.erreurs_detectees.l = <<>>
            /\ resultats.elements_absents.l = <<>>)

\* C6 amended: in every local result, est_correct is true iff the score
\* before rounding is at least 60, no forbidden point was detected and no
\* required point is missing; a result marked correct has a returned score of
\* at least 60, and a result with a missing point or a detected error is
\* never marked correct.
C6_EstCorrect ==
    LocalResult =>
        \A s \in SimilaritesMesurees :
            \A e \in {ScoreExact(s)} :
                /\ resultats.est_correct.b <=>
                      /\ e.num >= 60 * e.den
                      /\ resultats.erreurs_detectees.l = <<>>
                      /\ resultats.elements_absents.l = <<>>
                /\ resultats.est_correct.b => resultats.score.n >= 600

\* C6 witness: a local result marked correct, with a required point found.
C6_Witness ==
    /\ LocalResult
    /\ resultats.est_correct.b
    /\ resultats.elements_presents.l # <<>>

\* C7 as stated: the local score equals max(0, base - 10 * violations)
\* exactly.
C7_Original ==
    LocalResult =>
        \A s \in SimilaritesMesurees :
            \A e \in {ScoreExact(s)} : resultats.score.n * e.den = 10 * e.num

\* C7 amended: the local score is max(0, base - 10 * violations) rounded to
\* one decimal, with base as the claim gives it, and no invocation ends on
\* a division by zero.
C7_Score ==
    /\ exc # "ZeroDivisionError"
    /\ LocalResult =>
          \A s \in SimilaritesMesurees :
              \A e \in {ScoreExact(s)} : resultats.score.n = Round1(e)

\* C7 witness: a local result for a rubric with required points, a partial
\* one among them, and a detected error, whose score is above the floor.
C7_Witness ==
    /\ LocalResult
    /\ resultats.elements_partiels.l # <<>>
    /\ resultats.erreurs_detectees.l # <<>>
    /\ resultats.score.n > 0

\* C8: when the remote evaluator is configured and its text parses as a JSON
\* object, evaluer_reponse returns that object with every supplied key
\* unchanged, runs no part of the local pipeline, and returns the submitted
\* prompt as context.
C8_RemoteObjectReturned ==
    (gemini_model /\ Termine /\ reponse_gemini.parse = "objet") =>
        /\ pc = "returned"
        /\ passes_locales = 0
        /\ contexte = prompt_soumis
        /\ \A k \in ResultKeys :
              reponse_gemini.obj[k].t # "absent" => resultats[k] = reponse_gemini.obj[k]

\* C9: with no remote model handle, evaluer_reponse makes no remote call,
\* runs the local pipeline once and returns the 'not configured' context,
\* which no invocation with a remote model handle ever returns.
C9_NoRemoteCapability ==
    /\ ~gemini_model =>
          /\ appels_gemini = 0
          /\ pc # "gemini"
          /\ reponse_gemini = NoReponse
          /\ Termine => passes_locales = 1
          /\ pc = "returned" => contexte = NoteNonConfigure
    /\ (gemini_model /\ pc = "returned") => contexte # NoteNonConfigure

\* C9 witness: a result returned by an analyzer without a remote model.
C9_Witness ==
    /\ ~gemini_model
    /\ pc = "returned"
    /\ contexte = NoteNonConfigure

\* C10: whenever the remote response parses as a JSON object, whatever its
\* fields, evaluer_reponse_gemini does not raise and returns a well-formed
\* result.
C10_ObjectWellFormed ==
    reponse_gemini.parse = "objet" =>
        \A t \in {TraiterReponse(reponse_gemini)} : ~t.raised /\ WellFormed(t.val)

\* The invocation returned what the remote evaluator made of a JSON object.
RemoteResult ==
    pc = "returned" /\ passes_locales = 0 /\ reponse_gemini.parse = "objet"

\* The keys of a result that hold the lists of points.
PointListKeys ==
    {"elements_presents", "elements_partiels", "elements_absents", "erreurs_detectees"}

\* est_correct, similarite and the lists of points of a remote result are
\* defaulted as C11 says.
DefaultsOtherThanSuggestions ==
    /\ \A k \in PointListKeys :
          reponse_gemini.obj[k].t = "absent" => resultats[k] = JList(<<>>)
    /\ reponse_gemini.obj.est_correct.t = "absent" =>
          resultats.est_correct =
              JBool(IF reponse_gemini.obj.score.t = "absent" THEN FALSE
                    ELSE reponse_gemini.obj.score.n >= 600)
    /\ reponse_gemini.obj.similarite.t = "absent" => resultats.similarite = JNum(0)

PatternsInvalides(points) ==
    {i \in 1..Len(points) : points[i].kind = "regex" /\ PatternInvalide(points[i].text)}

\* C12: a regex point whose pattern has a syntax error is a non-match:
\* grade never raises, such a required point is reported missing and such a
\* forbidden point is not reported detected.
C12_InvalidRegexIsNonMatch ==
    appel.fn = "grade" =>
        /\ ~retour.raised
        /\ \A i \in PatternsInvalides(appel.req) :
              appel.req[i] \notin SeqToSet(retour.val.required_found)
        /\ \A i \in PatternsInvalides(appel.forb) :
              appel.forb[i] \notin SeqToSet(retour.val.forbidden_detected)

\* The points are literal strings or points of an unknown kind.
SansRegex(points) == \A i \in 1..Len(points) : points[i].kind \in {"str", "inconnu"}

\* C13: a point of an unknown kind matches nothing and checking it never
\* raises: BaselineGrader never reports it found or detected,
\* verifier_presence_elements never reports it present or partial, and
\* detecter_erreurs never reports it.
C13_UnknownMatchesNothing ==
    /\ (appel.fn = "grade" /\ ~retour.raised) =>
          InconnuPoint \notin SeqToSet(retour.val.required_found)
                              \cup SeqToSet(retour.val.forbidden_detected)
    /\ (appel.fn = "verifier_presence_elements" /\ ~nlp.leve
            /\ SansRegex(appel.elements_requis)) =>
          /\ ~retour.raised
          /\ InconnuPoint \notin SeqToSet(retour.val.presents)
                                  \cup SeqToSet(retour.val.partiels)
    /\ (appel.fn = "detecter_erreurs" /\ SansRegex(appel.erreurs_a_eviter)) =>
          /\ ~retour.raised
          /\ InconnuPoint \notin SeqToSet(retour.val)

\* C15: normaliser_texte returns for every text, is idempotent, and its
\* output is lowercase, made of word characters and single spaces only, with
\* no space at either end.
C15_Normaliser ==
    appel.fn = "normaliser_texte" =>
        /\ ~retour.raised
        /\ normaliser_texte(retour.val) = retour.val
        /\ \A i \in 1..Len(retour.val) :
              \/ retour.val[i] = " "
              \/ IsWordChar(retour.val[i]) /\ Lower(retour.val[i]) = retour.val[i]
        /\ \A i \in 1..Len(retour.val) :
              retour.val[i] = " " =>
                  /\ i # 1
                  /\ i # Len(retour.val)
                  /\ retour.val[i + 1] # " "

\* C15 witness: a text with an upper-case letter, punctuation and two words,
\* which normaliser_texte changes into two words and one space.
C15_Witness ==
    /\ appel.fn = "normaliser_texte"
    /\ appel.texte = Pt \o Sp \o Le
    /\ retour.val = <<"l", "e">>

\* C17: extraire_mots_cles never fails; when the linguistic model raises it
\* returns the keywords of the basic mode.
C17_ExtraireNeverFails ==
    appel.fn = "extraire_mots_cles" =>
        /\ ~retour.raised
        /\ nlp.leve => retour.val = MotsClesBasique(appel.texte)

\* The class C19 gives a literal point, from the keyword sets of the point
\* and of the answer.
ClasseAttendue(element, reponse, mots_element, mots_reponse) ==
    IF IsSubstring(normaliser_texte(element.text), normaliser_texte(reponse))
    THEN "present"
    ELSE IF mots_element # {}
            /\ 10 * Cardinality(mots_element \cap mots_reponse)
                  >= 7 * Cardinality(mots_element)
    THEN "partiel"
    ELSE "absent"

ClassesAttendues(h, elements, reponse) ==
    [i \in 1..Len(elements) |->
        ClasseAttendue(elements[i], reponse,
                       extraire_mots_cles(h, elements[i].text).val,
                       extraire_mots_cles(h, reponse).val)]

\* C19: whenever verifier_presence_elements returns, a required literal
\* point is present exactly when its normalized text is a substring of the
\* normalized answer; otherwise partial exactly when its keyword set is not
\* empty and at least 70% of it is in the answer's keyword set; otherwise
\* missing.
C19_Classification ==
    (appel.fn = "verifier_presence_elements" /\ ~retour.raised) =>
        \A classes \in {ClassesAttendues(nlp, appel.elements_requis, appel.reponse_user)} :
            /\ retour.val.presents =
                  Restrict(appel.elements_requis,
                           {i \in DOMAIN classes : classes[i] = "present"})
            /\ retour.val.partiels =
                  Restrict(appel.elements_requis,
                           {i \in DOMAIN classes : classes[i] = "partiel"})
            /\ retour.val.absents =
                  Restrict(appel.elements_requis,
                           {i \in DOMAIN classes : classes[i] = "absent"})

\* C19 witness: without a linguistic model, the point "chat lele" is partial
\* for the answer "lele chat" and the point "." is present.
C19_Witness ==
    /\ appel.fn = "verifier_presence_elements"
    /\ ~nlp.present
    /\ appel.reponse_user = Lele \o Sp \o Chat
    /\ ~retour.raised
    /\ retour.val.partiels = <<StrPoint(Chat \o Sp \o Lele)>>
    /\ retour.val.presents = <<StrPoint(Pt)>>

\* C20: whenever detecter_erreurs returns, it returns, in rubric order,
\* exactly the forbidden points whose normalized text is a substring of the
\* normalized answer.
C20_Detecter ==
    (appel.fn = "detecter_erreurs" /\ ~retour.raised) =>
        retour.val =
            Restrict(appel.erreurs_a_eviter,
                     {i \in 1..Len(appel.erreurs_a_eviter) :
                         IsSubstring(normaliser_texte(appel.erreurs_a_eviter[i].text),
                                     normaliser_texte(appel.reponse_user))})

\* C20 witness: of the forbidden points "chat lele" and "chat", the answer
\* "lele chat" violates the second only, although it has every keyword of
\* the first.
C20_Witness ==
    /\ appel.fn = "detecter_erreurs"
    /\ appel.reponse_user = Lele \o Sp \o Chat
    /\ appel.erreurs_a_eviter = <<StrPoint(Chat \o Sp \o Lele), StrPoint(Chat)>>
    /\ retour.val = <<StrPoint(Chat)>>

\* The ratio of the lower-cased answer and expected answer of a grade call.
RatiosGrade ==
    {SequenceRatio(MapSeq(Lower, appel.answer), MapSeq(Lower, appel.expected))}

\* base + 10 per point found - 10 per point detected, clamped into [0, 100],
\* in hundredths
Clamp100(x) == IF x < 0 THEN 0 ELSE IF x > 10000 THEN 10000 ELSE x

FoundAndMissingPartition ==
    IsPartition(retour.val.required_found, <<>>, retour.val.required_missing,
                appel.req)

PointsVioles ==
    {StrPoint(t) : t \in {u \in PointTexts :
        IsSubstring(normaliser_texte(u), normaliser_texte(reponse_user))}}

\* C16: for the same answer and the rubric extended with one more forbidden
\* point that the answer violates, the local pipeline returns a score that
\* is never higher, and exactly 10 lower unless clamped at 0.
C16_PenaltyMonotone ==
    LocalResult =>
        \A f \in PointsVioles :
            \A autre \in {evaluer_reponse_local(nlp,
                              [question_data EXCEPT !.erreurs_a_eviter = @ \o <<f>>],
                              reponse_user)} :
                /\ ~autre.raised
                /\ autre.val.score.n <= resultats.score.n
                /\ autre.val.score.n =
                      IF resultats.score.n >= 100 THEN resultats.score.n - 100 ELSE 0
                /\ Len(autre.val.erreurs_detectees.l)
                      = Len(resultats.erreurs_detectees.l) + 1

\* C16 witness: a local result with a score of 10 or more, for an answer
\* that violates the point "chat".
C16_Witness ==
    /\ LocalResult
    /\ resultats.score.n >= 100
    /\ StrPoint(Chat) \in PointsVioles

\* The same relation for BaselineGrader: one more forbidden point that the
\* answer matches never raises the score of grade.
GradePenaltyMonotone ==
    (appel.fn = "grade" /\ ~retour.raised) =>
        \A f \in PointPoolGrader :
            \A c \in {_check_point(f, appel.answer)} :
                (~c.raised /\ c.val) =>
                    \A autre \in {grade(appel.req, appel.forb \o <<f>>,
                                        appel.expected, appel.answer)} :
                        /\ ~autre.raised
                        /\ autre.val.final <= retour.val.final

(***************************************************************************)
(* Termination of an invocation.  The caller always takes a finished       *)
(* outcome; nothing in evaluer_reponse_gemini bounds the wait for          *)
(* generate_content, so no fairness is stated for its answer.              *)
(***************************************************************************)
FairSpec == Spec /\ WF_vars(Terminer)

\* C14: every invocation of evaluer_reponse eventually terminates with a
\* result: a remote call that is waited for is always followed by a
\* returned result.
C14_Terminates == (pc = "gemini") ~> (pc = "returned")

(***************************************************************************)
(* _generer_suggestions called on its own, on lists longer than the        *)
(* number of elements a line names.                                        *)
(***************************************************************************)
ListesSuggerees(n) == UNION {[1..k -> {StrPoint(Chat), StrPoint(Le)}] : k \in 0..n}

AppelSuggestions ==
    /\ appel.fn = "aucun"
    /\ \E absents \in ListesSuggerees(MaxListe),
          partiels \in ListesSuggerees(MaxListe - 1),
          erreurs_detectees \in ListesSuggerees(MaxListe - 1) :
        /\ appel' = [fn |-> "_generer_suggestions",
                     verification_elements |->
                        [presents |-> <<>>, absents |-> absents,
                         partiels |-> partiels],
                     erreurs_detectees |-> erreurs_detectees]
        /\ retour' = Ok(_generer_suggestions(
                            [presents |-> <<>>, absents |-> absents,
                             partiels |-> partiels],
                            erreurs_detectees))
    /\ UNCHANGED <<varsEvaluation, varsAutres>>

NextSuggestions ==
    \/ AppelSuggestions
    \/ Retourner

SpecSuggestions == InitAppels /\ [][NextSuggestions]_vars

\* The rank of a line in the fixed order of the suggestions.
RangLigne(type) ==
    CASE type = "mentionner" -> 1
      [] type = "developper" -> 2
      [] type = "eviter" -> 3
      [] OTHER -> 4

\* The list a line names and the number of elements it names at most.
SourceLigne(type) ==
    CASE type = "mentionner" ->
            [items |-> appel.verification_elements.absents, n |-> 3]
      [] type = "developper" ->
            [items |-> appel.verification_elements.partiels, n |-> 2]
      [] type = "eviter" -> [items |-> appel.erreurs_detectees, n |-> 2]
      [] OTHER -> [items |-> <<>>, n |-> 0]

\* C21: _generer_suggestions returns a non-empty list of lines in the order
\* missing, partial, violations, affirmation; the line of a list is there
\* exactly when the list is not empty and names its first 3 (missing) or
\* first 2 (partial, violations) elements at most; the affirmation is there
\* exactly when the three lists are empty, and is then the only line.
C21_Suggestions ==
    appel.fn = "_generer_suggestions" =>
        /\ ~retour.raised
        /\ Len(retour.val) >= 1
        /\ \A i \in 1..Len(retour.val), j \in 1..Len(retour.val) :
                i < j => RangLigne(retour.val[i].type) < RangLigne(retour.val[j].type)
        /\ \A type \in {"mentionner", "developper", "eviter"} :
                (\E i \in 1..Len(retour.val) : retour.val[i].type = type)
                    <=> SourceLigne(type).items # <<>>
        /\ \A i \in 1..Len(retour.val) :
                \/ /\ retour.val[i].type = "excellente"
                   /\ retour.val[i].items = <<>>
                \/ /\ retour.val[i].type \in {"mentionner", "developper", "eviter"}
                   /\ Len(retour.val[i].items)
                        = Min(SourceLigne(retour.val[i].type).n,
                              Len(SourceLigne(retour.val[i].type).items))
                   /\ \A k \in 1..Len(retour.val[i].items) :
                        retour.val[i].items[k]
                            = SourceLigne(retour.val[i].type).items[k]
        /\ (\E i \in 1..Len(retour.val) : retour.val[i].type = "excellente")
                <=> /\ appel.verification_elements.absents = <<>>
                    /\ appel.verification_elements.partiels = <<>>
                    /\ appel.erreurs_detectees = <<>>
        /\ (\E i \in 1..Len(retour.val) : retour.val[i].type = "excellente")
                => Len(retour.val) = 1

\* The three lists are longer than what their lines name, and the three
\* lines came back truncated.
C21_Witness ==
    /\ appel.fn = "_generer_suggestions"
    /\ Len(appel.verification_elements.absents) > 3
    /\ Len(appel.verification_elements.partiels) > 2
    /\ Len(appel.erreurs_detectees) > 2
    /\ Len(retour.val) = 3
    /\ Len(retour.val[1].items) = 3
    /\ Len(retour.val[2].items) = 2
    /\ Len(retour.val[3].items) = 2

(***************************************************************************)
(* Two threads call evaluer_reponse on the same analyzer.  An invocation   *)
(* advances by the statements that read self.gemini_model or self.nlp;     *)
(* everything it assigns is a local of its own frame.                      *)
(***************************************************************************)
RubricsFils ==
    { [reponse_attendue |-> Chat, points_obligatoires |-> <<StrPoint(Chat)>>,
       erreurs_a_eviter |-> <<StrPoint(Le)>>],
      [reponse_attendue |-> Le,
       points_obligatoires |-> <<StrPoint(Chat \o Sp \o Le)>>,
       erreurs_a_eviter |-> <<>>],
      [reponse_attendue |-> Le, points_obligatoires |-> <<>>,
       erreurs_a_eviter |-> <<RegexPoint>>] }

AnswersFils == {Chat, Le \o Sp \o Chat}

\* A fault: the locals are kept on the analyzer, one frame for all threads.
CadrePartage(t) == 1

\* The frame of the invocation that thread t runs.
Cadre(t) == t

\* The call: question_data and reponse_user are bound in a new frame.
AppelerFil(t) ==
    /\ fils_pc[t] = "idle"
    /\ \E q \in RubricsFils, r \in AnswersFils :
        /\ cadres' = [cadres EXCEPT ![Cadre(t)] =
                        [NoCadre EXCEPT !.question_data = q, !.reponse_user = r]]
        /\ fils_args' = [fils_args EXCEPT ![t] =
                            [NoArgs EXCEPT
                                !.question_data = q, !.reponse_user = r,
                                !.pendant = \E u \in Fils \ {t} :
                                    fils_pc[u] \notin {"idle", "returned", "raised"}]]
    /\ fils_pc' = [fils_pc EXCEPT ![t] = "routeur"]
    /\ UNCHANGED <<varsEvaluation, appel, retour, varsFenetres, varsAuteur, varsUsers,
                   varsAttempts, varsCreation>>

\* Lines 239-250 and 291-297: self.gemini_model is read, the prompt is built.
RouterFil(t) ==
    /\ fils_pc[t] = "routeur"
    /\ \E c \in {cadres[Cadre(t)]} :
        IF gemini_model
        THEN \E prompt \in {_construire_prompt_gemini(c.question_data, c.reponse_user)} :
                IF prompt.raised
                THEN /\ cadres' = [cadres EXCEPT ![Cadre(t)].note = NoteErreur(prompt.exc)]
                     /\ fils_pc' = [fils_pc EXCEPT ![t] = "similarite"]
                ELSE /\ cadres' = [cadres EXCEPT ![Cadre(t)].prompt = prompt.val]
                     /\ fils_pc' = [fils_pc EXCEPT ![t] = "gemini"]
        ELSE /\ cadres' = [cadres EXCEPT ![Cadre(t)].note = NoteNonConfigure]
             /\ fils_pc' = [fils_pc EXCEPT ![t] = "similarite"]
    /\ UNCHANGED <<varsEvaluation, appel, retour, varsFenetres, varsAuteur, varsUsers,
                   varsAttempts, varsCreation, fils_args>>

\* Lines 298-323 and 242-246: generate_content answered or raised.
GeminiFil(t) ==
    /\ fils_pc[t] = "gemini"
    /\ \E reponse \in GeminiReponses \cup {ReponseException} :
        /\ fils_args' = [fils_args EXCEPT ![t].reponse = reponse]
        /\ IF reponse = ReponseException
           THEN /\ cadres' = [cadres EXCEPT ![Cadre(t)].note = NoteErreur("TransportError")]
                /\ fils_pc' = [fils_pc EXCEPT ![t] = "similarite"]
           ELSE \E traite \in {TraiterReponse(reponse)} :
                    IF traite.raised
                    THEN /\ cadres' = [cadres EXCEPT ![Cadre(t)].note = NoteErreur(traite.exc)]
                         /\ fils_pc' = [fils_pc EXCEPT ![t] = "similarite"]
                    ELSE /\ cadres' = [cadres EXCEPT
                                        ![Cadre(t)].resultats = traite.val,
                                        ![Cadre(t)].contexte = cadres[Cadre(t)].prompt]
                         /\ fils_pc' = [fils_pc EXCEPT ![t] = "returned"]
    /\ UNCHANGED <<varsEvaluation, appel, retour, varsFenetres, varsAuteur, varsUsers,
                   varsAttempts, varsCreation>>

\* Line 337: similarite = self.calculer_similarite(...), which reads self.nlp.
SimilariteFil(t) ==
    /\ fils_pc[t] = "similarite"
    /\ \E c \in {cadres[Cadre(t)]} :
        \E similarite \in {calculer_similarite(nlp, c.reponse_user,
                                               c.question_data.reponse_attendue)} :
            IF similarite.raised
            THEN /\ cadres' = [cadres EXCEPT ![Cadre(t)].exc = similarite.exc]
                 /\ fils_pc' = [fils_pc EXCEPT ![t] = "raised"]
            ELSE /\ cadres' = [cadres EXCEPT ![Cadre(t)].similarite = similarite.val]
                 /\ fils_pc' = [fils_pc EXCEPT ![t] = "verification"]
    /\ UNCHANGED <<varsEvaluation, appel, retour, varsFenetres, varsAuteur, varsUsers,
                   varsAttempts, varsCreation, fils_args>>

\* Line 340: verification_elements = self.verifier_presence_elements(...),
\* which reads self.nlp.
VerificationFil(t) ==
    /\ fils_pc[t] = "verification"
    /\ \E c \in {cadres[Cadre(t)]} :
        \E verification \in {verifier_presence_elements(
                                nlp, c.reponse_user,
                                c.question_data.points_obligatoires)} :
            IF verification.raised
            THEN /\ cadres' = [cadres EXCEPT ![Cadre(t)].exc = verification.exc]
                 /\ fils_pc' = [fils_pc EXCEPT ![t] = "raised"]
            ELSE /\ cadres' = [cadres EXCEPT
                                ![Cadre(t)].verification_elements = verification.val]
                 /\ fils_pc' = [fils_pc EXCEPT ![t] = "erreurs"]
    /\ UNCHANGED <<varsEvaluation, appel, retour, varsFenetres, varsAuteur, varsUsers,
                   varsAttempts, varsCreation, fils_args>>

\* Lines 343-370 and 246, 250: the violations, the score and the return.
ErreursFil(t) ==
    /\ fils_pc[t] = "erreurs"
    /\ \E c \in {cadres[Cadre(t)]} :
        \E erreurs \in {detecter_erreurs(c.reponse_user,
                                         c.question_data.erreurs_a_eviter)} :
            IF erreurs.raised
            THEN /\ cadres' = [cadres EXCEPT ![Cadre(t)].exc = erreurs.exc]
                 /\ fils_pc' = [fils_pc EXCEPT ![t] = "raised"]
            ELSE \E local \in {Aggregate(c.similarite, c.verification_elements,
                                         erreurs.val,
                                         c.question_data.points_obligatoires)} :
                    IF local.raised
                    THEN /\ cadres' = [cadres EXCEPT ![Cadre(t)].exc = local.exc]
                         /\ fils_pc' = [fils_pc EXCEPT ![t] = "raised"]
                    ELSE /\ cadres' = [cadres EXCEPT
                                        ![Cadre(t)].resultats = local.val,
                                        ![Cadre(t)].contexte = c.note]
                         /\ fils_pc' = [fils_pc EXCEPT ![t] = "returned"]
    /\ UNCHANGED <<varsEvaluation, appel, retour, varsFenetres, varsAuteur, varsUsers,
                   varsAttempts, varsCreation, fils_args>>

\* The caller has taken the outcome; the frame is gone.
ReprendreFil(t) ==
    /\ fils_pc[t] \in {"returned", "raised"}
    /\ fils_pc' = [fils_pc EXCEPT ![t] = "idle"]
    /\ cadres' = [cadres EXCEPT ![Cadre(t)] = NoCadre]
    /\ fils_args' = [fils_args EXCEPT ![t] = NoArgs]
    /\ UNCHANGED <<varsEvaluation, appel, retour, varsFenetres, varsAuteur, varsUsers,
                   varsAttempts, varsCreation>>

NextFils ==
    \E t \in Fils :
        \/ AppelerFil(t)
        \/ RouterFil(t)
        \/ GeminiFil(t)
        \/ SimilariteFil(t)
        \/ VerificationFil(t)
        \/ ErreursFil(t)
        \/ ReprendreFil(t)

SpecFils == Init /\ [][NextFils]_vars

(***************************************************************************)
(* MenuPrincipal.ouvrir_evaluation: each evaluation window constructs its  *)
(* own ReponseAnalyzer, and evaluates with it.                             *)
(***************************************************************************)
\* How "import spacy" and spacy.load("fr_core_news_md") end: the package is
\* missing, the model is missing, the import or the load raises something
\* else (a package built against another numpy, a model of another spaCy
\* version), or a model is loaded.
IssuesNlp ==
    {[issue |-> "ImportError", nlp |-> NoNlp], [issue |-> "OSError", nlp |-> NoNlp],
     [issue |-> "ValueError", nlp |-> NoNlp]}
    \cup {[issue |-> "ok", nlp |-> h] : h \in NlpModels}

\* Lines 132-143: only ImportError and OSError are caught.
_init_nlp(issue) ==
    IF issue.issue \in {"ImportError", "OSError"} THEN Ok(NoNlp)
    ELSE IF issue.issue = "ok" THEN Ok(issue.nlp)
    ELSE Raise(issue.issue, NoNlp)

\* Lines 145-158: every Exception is caught.
_init_gemini(issue) == issue = "ok"

\* Lines 1056-1059, 622-633 and 125-130: EvaluationQuestionGUI.__init__ makes
\* a ReponseAnalyzer, whose __init__ runs _init_nlp and then _init_gemini.
ouvrir_evaluation ==
    /\ Len(analyzers) < MaxFenetres
    /\ \E i_nlp \in IssuesNlp, i_gemini \in {"sans_cle", "exception", "ok"} :
        \E h \in {_init_nlp(i_nlp)} :
            IF h.raised
            THEN /\ ouverture' = [raised |-> TRUE, exc |-> h.exc]
                 /\ UNCHANGED <<analyzers, initialisations>>
            ELSE /\ ouverture' = NoOuverture
                 /\ initialisations' =
                        [nlp |-> initialisations.nlp
                                    + (IF i_nlp.issue = "ImportError" THEN 0 ELSE 1),
                         gemini |-> initialisations.gemini
                                    + (IF i_gemini = "sans_cle" THEN 0 ELSE 1)]
                 /\ analyzers' = Append(analyzers,
                                        [nlp |-> h.val,
                                         gemini_model |-> _init_gemini(i_gemini)])
    /\ UNCHANGED <<varsEvaluation, appel, retour, varsFils, varsAuteur, varsUsers,
                   varsAttempts, varsCreation, evaluation>>

\* What evaluer_reponse gives on an analyzer with the handles h and g: the
\* outcome of the local pipeline under the note, or the remote object under
\* the prompt.
LocalSeul(h, q, r, note) ==
    With(evaluer_reponse_local(h, q, r), LAMBDA local :
        [raised |-> local.raised, exc |-> local.exc, resultats |-> local.val,
         contexte |-> IF local.raised THEN <<>> ELSE note])

Seul(h, g, q, r, reponse) ==
    IF ~g THEN LocalSeul(h, q, r, NoteNonConfigure)
    ELSE With(_construire_prompt_gemini(q, r), LAMBDA prompt :
            IF prompt.raised THEN LocalSeul(h, q, r, NoteErreur(prompt.exc))
            ELSE IF reponse = ReponseException
            THEN LocalSeul(h, q, r, NoteErreur("TransportError"))
            ELSE With(TraiterReponse(reponse), LAMBDA traite :
                    IF traite.raised
                    THEN LocalSeul(h, q, r, NoteErreur(traite.exc))
                    ELSE [raised |-> FALSE, exc |-> "", resultats |-> traite.val,
                          contexte |-> prompt.val]))

\* What generate_content does for an evaluation made in a window: it raises,
\* or it answers a complete object.
ReponsesFenetre ==
    {ReponseException,
     [parse |-> "objet",
      obj |-> JsonObject(JNum(850), JBool(TRUE), JList(<<StrPoint(Chat)>>),
                         JList(<<[type |-> "conseil", items |-> <<>>]>>))]}

\* Lines 822-851: the evaluation button of window w.
EvaluerFenetre(w) ==
    /\ w \in 1..Len(analyzers)
    /\ \E q \in RubricsFils, r \in AnswersFils, reponse \in ReponsesFenetre :
        \E seul \in {Seul(analyzers[w].nlp, analyzers[w].gemini_model, q, r, reponse)} :
            evaluation' = [fenetre |-> w, raised |-> seul.raised, exc |-> seul.exc,
                           resultats |-> seul.resultats, contexte |-> seul.contexte]
    /\ UNCHANGED <<varsEvaluation, appel, retour, varsFils, varsAuteur, varsUsers,
                   varsAttempts, varsCreation, analyzers, initialisations, ouverture>>

NextFenetres ==
    \/ ouvrir_evaluation
    \/ \E w \in 1..MaxFenetres : EvaluerFenetre(w)

\* The analyzers are the ones of the windows: none is made before a window
\* is opened.
InitFenetres == Init /\ ~nlp.present /\ ~gemini_model

SpecFenetres == InitFenetres /\ [][NextFenetres]_vars

\* C23: over the windows opened and the evaluations made, the linguistic
\* model is loaded at most once and the remote client is made at most once,
\* and opening a window never raises because an initialization failed.
C23_HandlesOnce ==
    /\ initialisations.nlp <= 1
    /\ initialisations.gemini <= 1
    /\ ~ouverture.raised

\* C22: whatever the other thread does meanwhile, an invocation that is over
\* returned the (result, context), or raised the exception, that the same
\* call gives when it runs alone with the same remote response; the handles
\* of the analyzer are the ones it was constructed with.
C22_NoInterference ==
    \A t \in Fils :
        fils_pc[t] \in {"returned", "raised"} =>
            \E seul \in {Seul(nlp, gemini_model, fils_args[t].question_data,
                              fils_args[t].reponse_user, fils_args[t].reponse)} :
                /\ seul.raised <=> fils_pc[t] = "raised"
                /\ cadres[Cadre(t)].exc = seul.exc
                /\ cadres[Cadre(t)].resultats = seul.resultats
                /\ cadres[Cadre(t)].contexte = seul.contexte

\* Both threads are over, each after a call of its own with its own result,
\* and the second made its call while the first was running.
C22_Witness ==
    /\ fils_pc[1] = "returned"
    /\ fils_pc[2] = "returned"
    /\ fils_args[2].pendant
    /\ cadres[Cadre(2)].contexte = NoteNonConfigure
    /\ fils_args[1].question_data # fils_args[2].question_data
    /\ fils_args[1].reponse_user # fils_args[2].reponse_user
    /\ cadres[Cadre(1)].resultats # cadres[Cadre(2)].resultats

(***************************************************************************)
(* flaskapp/author.py over flaskapp/storage.py: the requests of logged-in  *)
(* authors.  current_user is the author u of the request.                  *)
(***************************************************************************)
\* The desktop application, which the web application does not touch.
varsBureau == <<varsEvaluation, appel, retour, varsFils, varsFenetres, varsCreation>>

\* The web application has no analyzer.
InitFlask == Init /\ ~nlp.present /\ ~gemini_model

\* request.form["num"]: a decimal number, or a text int() refuses.
FormNums == [ok : {TRUE}, num : Nums] \cup {[ok |-> FALSE, num |-> 0]}

\* storage.save_question: the file of q.num is replaced by q.
save_question(q, num) == questions' = [questions EXCEPT ![num] = q]

\* storage.load_question: None when the file does not exist.
load_question(num) == questions[num]

\* POST /questions.  'json_ok': the three JSON fields of the form parse.
create_question(u) ==
    \E form \in FormNums, title \in {"t1", "t2"}, json_ok \in BOOLEAN :
        IF ~form.ok
        THEN /\ requete' = [user |-> u, route |-> "create_question", num |-> 0,
                            status |-> 400, avant |-> NoQuestion]
             /\ UNCHANGED <<questions, links, varsBureau, varsUsers, varsAttempts>>
        ELSE IF ~json_ok
        THEN /\ requete' = [user |-> u, route |-> "create_question",
                            num |-> form.num, status |-> 500,
                            avant |-> load_question(form.num)]
             /\ UNCHANGED <<questions, links, varsBureau, varsUsers, varsAttempts>>
        ELSE /\ save_question([present |-> TRUE, owner_email |-> u, title |-> title],
                              form.num)
             /\ requete' = [user |-> u, route |-> "create_question",
                            num |-> form.num, status |-> 302,
                            avant |-> load_question(form.num)]
             /\ UNCHANGED <<links, varsBureau, varsUsers, varsAttempts>>

\* GET /questions/<num>
view_question(u) ==
    \E num \in Nums :
        \E q \in {load_question(num)} :
            /\ requete' = [user |-> u, route |-> "view_question", num |-> num,
                           status |-> IF ~q.present \/ q.owner_email # u
                                      THEN 404 ELSE 200,
                           avant |-> q]
            /\ UNCHANGED <<questions, links, varsBureau, varsUsers, varsAttempts>>

\* POST /questions/<num>/new-link
new_link(u) ==
    /\ Len(links) < MaxLinks
    /\ \E num \in Nums :
        \E q \in {load_question(num)} :
            IF ~q.present \/ q.owner_email # u
            THEN /\ requete' = [user |-> u, route |-> "new_link", num |-> num,
                                status |-> 404, avant |-> q]
                 /\ UNCHANGED <<questions, links, varsBureau, varsUsers, varsAttempts>>
            ELSE /\ links' = Append(links, num)
                 /\ requete' = [user |-> u, route |-> "new_link", num |-> num,
                                status |-> 302, avant |-> q]
                 /\ UNCHANGED <<questions, varsBureau, varsUsers, varsAttempts>>

NextAuteur ==
    \E u \in Emails :
        \/ create_question(u)
        \/ view_question(u)
        \/ new_link(u)

SpecAuteur == InitFlask /\ [][NextAuteur]_vars

\* C24: a request that replaced the stored question of a number was made by
\* the owner of the question that was stored under that number; a request
\* of another user is refused, as view_question and new_link refuse it.
C24_Ownership ==
    (requete.avant.present /\ requete.avant.owner_email # requete.user) =>
        /\ requete.status \notin {200, 302}
        /\ questions[requete.num] = requete.avant

(***************************************************************************)
(* storage.create_user called by two request threads of one process, as    *)
(* register_post calls it.  A step is one statement of lines 57-64.        *)
(***************************************************************************)
\* werkzeug's generate_password_hash: a hash that only its password checks.
generate_password_hash(password) == <<"hash", password>>

\* A fault: the lock excludes nobody.
VerrouToujoursLibre == TRUE

\* threading.Lock: acquired only when no thread holds it.
VerrouLibre == verrou = 0

\* auth.py lines 14-20: a non-empty e-mail and password reach create_user.
register_post(t) ==
    /\ inscriptions[t].pc = "idle"
    /\ \E email \in Emails, password \in {"p", "q"} :
        inscriptions' = [inscriptions EXCEPT ![t] =
            [NoInscription EXCEPT
                !.pc = "attente", !.email = email, !.password = password,
                !.pendant = \E u \in Fils \ {t} :
                    inscriptions[u].pc \notin {"idle", "returned", "raised"}]]
    /\ UNCHANGED <<users_file, verrou, crees, varsBureau, varsAuteur, varsAttempts>>

\* Line 57: with _lock
Acquerir(t) ==
    /\ inscriptions[t].pc = "attente"
    /\ VerrouLibre
    /\ verrou' = t
    /\ inscriptions' = [inscriptions EXCEPT ![t].pc = "charge"]
    /\ UNCHANGED <<users_file, crees, varsBureau, varsAuteur, varsAttempts>>

\* Line 58: users = _atomic_load(USERS_FILE, {})
Charger(t) ==
    /\ inscriptions[t].pc = "charge"
    /\ inscriptions' = [inscriptions EXCEPT ![t].users = users_file,
                                            ![t].pc = "verifie"]
    /\ UNCHANGED <<users_file, verrou, crees, varsBureau, varsAuteur, varsAttempts>>

\* Lines 59-62: ValueError leaves the with block, which releases the lock.
Verifier(t) ==
    /\ inscriptions[t].pc = "verifie"
    /\ IF inscriptions[t].users[inscriptions[t].email].present
       THEN /\ verrou' = 0
            /\ inscriptions' = [inscriptions EXCEPT ![t].pc = "raised"]
       ELSE /\ inscriptions' = [inscriptions EXCEPT
                ![t].users[inscriptions[t].email] =
                    [present |-> TRUE,
                     password_hash |->
                        generate_password_hash(inscriptions[t].password)],
                ![t].pc = "ecrit"]
            /\ UNCHANGED verrou
    /\ UNCHANGED <<users_file, crees, varsBureau, varsAuteur, varsAttempts>>

\* Line 63 and lines 31-42: the file is replaced at once by os.replace.
Ecrire(t) ==
    /\ inscriptions[t].pc = "ecrit"
    /\ users_file' = inscriptions[t].users
    /\ inscriptions' = [inscriptions EXCEPT ![t].pc = "rend"]
    /\ UNCHANGED <<verrou, crees, varsBureau, varsAuteur, varsAttempts>>

\* Line 64: return u, which releases the lock.
Rendre(t) ==
    /\ inscriptions[t].pc = "rend"
    /\ verrou' = 0
    /\ crees' = Append(crees,
                       [email |-> inscriptions[t].email,
                        password_hash |->
                            inscriptions[t].users[inscriptions[t].email].password_hash])
    /\ inscriptions' = [inscriptions EXCEPT ![t].pc = "returned"]
    /\ UNCHANGED <<users_file, varsBureau, varsAuteur, varsAttempts>>

\* auth.py lines 21-25: register_post answers the request.
Repondre(t) ==
    /\ inscriptions[t].pc \in {"returned", "raised"}
    /\ inscriptions' = [inscriptions EXCEPT ![t] = NoInscription]
    /\ UNCHANGED <<users_file, verrou, crees, varsBureau, varsAuteur, varsAttempts>>

NextUsers ==
    \E t \in Fils :
        \/ register_post(t)
        \/ Acquerir(t)
        \/ Charger(t)
        \/ Verifier(t)
        \/ Ecrire(t)
        \/ Rendre(t)
        \/ Repondre(t)

SpecUsers == InitFlask /\ [][NextUsers]_vars

\* C25: under every interleaving of create_user calls, no two calls
\* succeeded for the same e-mail; every user a call returned is in the
\* store with the hash that call made (none is lost, no hash is replaced);
\* and a call that raised ValueError was for an e-mail another call had
\* created, whose entry it left as it was.
C25_CreateUser ==
    /\ \A i, j \in 1..Len(crees) : i # j => crees[i].email # crees[j].email
    /\ \A i \in 1..Len(crees) :
        users_file[crees[i].email] =
            [present |-> TRUE, password_hash |-> crees[i].password_hash]
    /\ \A t \in Fils :
        inscriptions[t].pc = "raised" =>
            /\ \E i \in 1..Len(crees) : crees[i].email = inscriptions[t].email
            /\ inscriptions[t].users[inscriptions[t].email]
                = users_file[inscriptions[t].email]

\* Two overlapping calls for the same e-mail with different passwords: the
\* first returned its user, the second raised, and the store holds the
\* hash of the first.
C25_Witness ==
    /\ inscriptions[1].pc = "returned"
    /\ inscriptions[2].pc = "raised"
    /\ inscriptions[2].pendant
    /\ inscriptions[1].email = inscriptions[2].email
    /\ inscriptions[1].password # inscriptions[2].password
    /\ users_file[inscriptions[1].email].password_hash
        = generate_password_hash(inscriptions[1].password)

(***************************************************************************)
(* Desktop application: the creation windows opened from the main menu,    *)
(* over the files of questions_db.                                         *)
(***************************************************************************)
\* QuestionManager.get_next_question_number on the files of db.
get_next_question_number(db) ==
    IF \A n \in DOMAIN db : ~db[n].present THEN 1
    ELSE 1 + CHOOSE n \in DOMAIN db :
                /\ db[n].present
                /\ \A m \in DOMAIN db : db[m].present => m <= n

\* Lines 1051-1054, 397-406 and 447: a new window shows the next number.
ouvrir_creation ==
    /\ Len(formulaires) < MaxCreation
    /\ formulaires' = Append(formulaires, get_next_question_number(questions_db))
    /\ UNCHANGED <<questions_db, sauvegarde, varsEvaluation, appel, retour, varsFils, varsFenetres, varsAuteur,
                   varsUsers, varsAttempts>>

\* Lines 566-602 and 79-89.  'ecrit': open() and pickle.dump succeeded.
sauvegarder_question(w) ==
    /\ w \in 1..Len(formulaires)
    /\ formulaires[w] <= MaxNumero
    /\ \E titre \in {"", "t1", "t2"}, enonce \in {"", "e"}, ecrit \in BOOLEAN :
        \E numero \in {formulaires[w]} :
            IF titre = "" \/ enonce = ""
            THEN /\ sauvegarde' = [fenetre |-> w, numero |-> numero,
                                   succes |-> FALSE, avant |-> questions_db[numero]]
                 /\ UNCHANGED <<questions_db, formulaires>>
            ELSE IF ~ecrit
            THEN /\ sauvegarde' = [fenetre |-> w, numero |-> numero,
                                   succes |-> FALSE, avant |-> questions_db[numero]]
                 /\ UNCHANGED <<questions_db, formulaires>>
            ELSE /\ questions_db' =
                        [questions_db EXCEPT ![numero] =
                            [present |-> TRUE, titre |-> titre, enonce |-> enonce]]
                 /\ sauvegarde' = [fenetre |-> w, numero |-> numero,
                                   succes |-> TRUE, avant |-> questions_db[numero]]
                 /\ formulaires' =
                        [formulaires EXCEPT ![w] =
                            get_next_question_number(questions_db')]
    /\ UNCHANGED <<varsEvaluation, appel, retour, varsFils, varsFenetres, varsAuteur,
                   varsUsers, varsAttempts>>

\* Lines 604-613: the Effacer button.
effacer_formulaire(w) ==
    /\ w \in 1..Len(formulaires)
    /\ formulaires' =
            [formulaires EXCEPT ![w] = get_next_question_number(questions_db)]
    /\ UNCHANGED <<questions_db, sauvegarde, varsEvaluation, appel, retour, varsFils, varsFenetres, varsAuteur,
                   varsUsers, varsAttempts>>

NextCreation ==
    \/ ouvrir_creation
    \/ \E w \in 1..MaxCreation : sauvegarder_question(w)
    \/ \E w \in 1..MaxCreation : effacer_formulaire(w)

SpecCreation == InitFenetres /\ [][NextCreation]_vars

\* C26: a save that succeeded used a number under which no question was
\* stored at the moment of the save.
C26_NoOverwrite == sauvegarde.succes => ~sauvegarde.avant.present

(***************************************************************************)
(* storage.save_attempt and storage.list_attempts.  created_at is a second *)
(* and a fraction of it; a text is a sequence of characters.               *)
(***************************************************************************)
Attempts ==
    [question_num : Nums, student_email : {<<"a">>, <<"a", "b">>},
     answer_text : {<<"c">>, <<"b", "c">>}, created_at : [s : 0..1, us : 0..1]]

\* int(a.created_at.timestamp())
Stamp(created_at) == created_at.s

\* hashlib.md5((student_email + answer_text).encode()).hexdigest()[:8]: a
\* digest of the concatenation, taken here as telling apart any two
\* concatenations.
Key(student_email, answer_text) == student_email \o answer_text

\* Lines 117-121: the file of an attempt inside the directory of its question.
AttemptPath(a) ==
    <<a.question_num, Stamp(a.created_at), Key(a.student_email, a.answer_text)>>

\* a is not later than b.
NotLater(a, b) ==
    \/ a.created_at.s < b.created_at.s
    \/ a.created_at.s = b.created_at.s /\ a.created_at.us <= b.created_at.us

\* Lines 116-122: _atomic_dump replaces a file of the same path.
save_attempt ==
    /\ Len(tentatives) < MaxTentatives
    /\ \E a \in Attempts :
        /\ attempts_dir' = {f \in attempts_dir : f.path # AttemptPath(a)}
                            \cup {[path |-> AttemptPath(a), a |-> a]}
        /\ tentatives' = Append(tentatives, a)
    /\ liste' = NoListe
    /\ UNCHANGED <<varsBureau, varsAuteur, varsUsers>>

\* Lines 124-132: the attempts of the files of the directory, sorted by
\* created_at; os.listdir gives the files in any order.
list_attempts ==
    /\ \E question_num \in Nums :
        \E files \in {{f \in attempts_dir : f.path[1] = question_num}} :
            \E out \in [1..Cardinality(files) -> {f.a : f \in files}] :
                /\ \A f \in files : \E i \in DOMAIN out : out[i] = f.a
                /\ \A i, j \in DOMAIN out : i < j => NotLater(out[i], out[j])
                /\ liste' = [question_num |-> question_num, attempts |-> out]
    /\ UNCHANGED <<attempts_dir, tentatives, varsBureau, varsAuteur, varsUsers>>

NextAttempts ==
    \/ save_attempt
    \/ list_attempts

SpecAttempts == InitFlask /\ [][NextAttempts]_vars

\* C27: list_attempts(question_num) returns, ordered by created_at, as many
\* entries as attempts were saved for that question and each saved attempt
\* as often as it was saved, and no attempt of another question.
C27_NoAttemptLost ==
    liste.question_num # 0 =>
        /\ \A i, j \in DOMAIN liste.attempts :
                i < j => NotLater(liste.attempts[i], liste.attempts[j])
        /\ \A i \in DOMAIN liste.attempts :
                liste.attempts[i].question_num = liste.question_num
        /\ \A a \in Attempts :
                a.question_num = liste.question_num =>
                    Cardinality({i \in DOMAIN liste.attempts : liste.attempts[i] = a})
                        = Cardinality({i \in DOMAIN tentatives : tentatives[i] = a})

(***************************************************************************)
(* Rubric points whose normalized text is empty.                           *)
(***************************************************************************)
EstVide(p) == IsStr(p) /\ normaliser_texte(p.text) = <<>>

\* The empty string, and texts of punctuation and whitespace only.
PointsVides ==
    {StrPoint(<<>>), StrPoint(Pt), StrPoint(Sp), StrPoint(Pt \o Sp \o Pt)}

\* The sequence without its element of index i.
SansIndice(s, i) == SubSeq(s, 1, i - 1) \o SubSeq(s, i + 1, Len(s))

\* The occurrences of empty-normalized points in a list.
Vides(points) == {i \in 1..Len(points) : EstVide(points[i])}

\* C28 as stated: a forbidden point whose normalized text is empty lowers
\* the local score by 10 points, whatever the score without it.
C28_Original ==
    LocalResult =>
        \A i \in Vides(question_data.erreurs_a_eviter) :
            \A sans \in {evaluer_reponse_local(nlp,
                            [question_data EXCEPT
                                !.erreurs_a_eviter = SansIndice(@, i)],
                            reponse_user)} :
                /\ ~sans.raised
                /\ resultats.score.n = sans.val.score.n - 100

\* C28 amended: in a local result, for every answer, the empty one included,
\* each required point whose normalized text is empty is classified present
\* and each such forbidden point is reported as a violation, which makes
\* est_correct false and the score 10 points lower than without the point,
\* but not lower than 0; verifier_presence_elements and detecter_erreurs
\* match the empty string and every text of punctuation and whitespace.
C28_EmptyPoint ==
    LocalResult =>
        /\ Cardinality(Vides(resultats.elements_presents.l))
                = Cardinality(Vides(question_data.points_obligatoires))
        /\ Vides(resultats.elements_partiels.l) = {}
        /\ Vides(resultats.elements_absents.l) = {}
        /\ Cardinality(Vides(resultats.erreurs_detectees.l))
                = Cardinality(Vides(question_data.erreurs_a_eviter))
        /\ Vides(question_data.erreurs_a_eviter) # {} => ~resultats.est_correct.b
        /\ \A i \in Vides(question_data.erreurs_a_eviter) :
            \A sans \in {evaluer_reponse_local(nlp,
                            [question_data EXCEPT
                                !.erreurs_a_eviter = SansIndice(@, i)],
                            reponse_user)} :
                /\ ~sans.raised
                /\ resultats.score.n = Max(0, sans.val.score.n - 100)
        /\ \A v \in PointsVides :
            /\ EstVide(v)
            /\ verifier_presence_elements(nlp, reponse_user, <<v>>).val
                    = [presents |-> <<v>>, absents |-> <<>>, partiels |-> <<>>]
            /\ detecter_erreurs(reponse_user, <<v>>).val = <<v>>

\* The empty answer, evaluated locally against a rubric whose required and
\* forbidden points include one of punctuation only: the point is present,
\* it is a violation, and the score is 10 below the 100 of the rubric
\* without the forbidden point.
C28_Witness ==
    /\ LocalResult
    /\ reponse_user = <<>>
    /\ Vides(question_data.points_obligatoires) # {}
    /\ Vides(question_data.erreurs_a_eviter) # {}
    /\ Vides(resultats.elements_presents.l) # {}
    /\ Vides(resultats.erreurs_detectees.l) # {}
    /\ ~resultats.est_correct.b
    /\ resultats.score.n = 900

====
